---- MODULE Spec2Model ----
(***************************************************************************)
(* A model of change-gan/main.py: the EvaluationRunHook (checkpoint        *)
(* tracking, the two locks, the evaluation pass) run by overlapping hook   *)
(* threads, and dispatch()/run() (role resolution and the training loop).  *)
(*                                                                         *)
(* Spec          the hook: threads calling after_run and end               *)
(* SpecDispatch  dispatch() on every TF_CONFIG of the bounded input space  *)
(***************************************************************************)
EXTENDS Integers, FiniteSets, Sequences, TLC

(***************************************************************************)
(* Bounds of the model.                                                    *)
(***************************************************************************)
\* hook threads that may overlap
NThreads == 2
\* checkpoints the training session writes to the checkpoint directory
MaxCkpt == 2
\* largest eval_steps / longest finite input pipeline
MaxEvalSteps == 2
\* largest eval_frequency
MaxEvalEvery == 1
\* largest task index in TF_CONFIG
MaxIndex == 2
\* addresses the cluster lists for each of its jobs
TasksPerJob == 2
\* largest --train-steps, and largest global step restored at start
MaxTrainSteps == 2
\* most steps the other workers of a cluster add during one step of this one
MaxOtherSteps == 1

Threads == 1..NThreads

(***************************************************************************)
(* Values standing for Python's None and for "no thread".                  *)
(***************************************************************************)
\* self._latest_checkpoint = None / tf.train.latest_checkpoint() -> None
NoCheckpoint == 0
\* eval_steps=None: no limit on the iterations of a pass
NoLimit == -1
\* an unlocked threading.Lock
NoHolder == 0
\* no summary written
NoSummary == -1

VARIABLES
  \* ---- EvaluationRunHook fields
  eval_every,              \* self._eval_every
  eval_steps,              \* self._eval_steps
  latest_checkpoint,       \* self._latest_checkpoint
  checkpoints_since_eval,  \* self._checkpoints_since_eval
  eval_lock,               \* self._eval_lock: its holder, or NoHolder
  checkpoint_lock,         \* self._checkpoint_lock: its holder, or NoHolder
  \* ---- the checkpoint directory
  dir_latest,              \* what tf.train.latest_checkpoint(dir) returns now
  \* ---- the training session
  global_step,             \* the live global step of the training graph
  \* ---- each hook thread
  call,                    \* the hook method the thread is in
  pc,                      \* its position in that method
  got_lock,                \* result of its checkpoint_lock.acquire(False)
  latest,                  \* local `latest` of _update_latest_checkpoint
  loaded,                  \* value read by `+= 1` before it is written back
  eval_step,               \* local `eval_step` of _run_eval
  exhausted,               \* its input pipeline has raised OutOfRangeError
  exc,                     \* exception propagating out of _run_eval, or "none"
  passes,                  \* evaluation passes this call has completed
  restored,                \* the checkpoint its evaluation session restored
  train_step,              \* local `train_step` of _run_eval
  written,                 \* global_step of the summary it wrote, or NoSummary
  \* ---- what end() found when it was called
  end_found,               \* "idle": nothing to evaluate, "busy": a pass running,
                           \* "idle_busy": both, "other"; "none" before the call
  \* ---- history of the counter
  changes_recorded,        \* executions of line 68 since the last reset (57)
  \* ---- dispatch() and run()
  tf_config,               \* os.environ.get('TF_CONFIG'), parsed
  dpc,                     \* position in dispatch()/run()
  server_started,          \* a tf.train.Server was started
  run_args,                \* (target, is_chief) run() was called with
  hooks_attached,          \* run(): hooks = [EvaluationRunHook(...)]
  train_steps,             \* --train-steps
  step,                    \* run(): local `step`
  steps_run,               \* training steps run() has executed
  start_step,              \* the global step the session started from
  hook_calls,              \* callbacks the session has made to attached hooks
  stop_requested           \* session.should_stop()

hookVars == <<eval_every, eval_steps, latest_checkpoint, checkpoints_since_eval,
              eval_lock, checkpoint_lock, dir_latest, call, pc, got_lock, latest,
              loaded, eval_step, exhausted, exc, passes, end_found,
              global_step, restored, train_step, written, changes_recorded>>
dispatchVars == <<tf_config, dpc, server_started, run_args, hooks_attached,
                  train_steps, step, steps_run, start_step, hook_calls,
                 stop_requested>>
vars == <<hookVars, dispatchVars>>

(***************************************************************************)
(* EvaluationRunHook.__init__ (lines 17-47): the hook as constructed, for  *)
(* every eval_frequency and eval_steps in the bounds.  The checkpoint      *)
(* directory is empty; SaveCheckpoint fills it, also before the first call.*)
(***************************************************************************)
HookInit ==
  /\ eval_every \in 0..MaxEvalEvery
  /\ eval_steps \in {NoLimit} \cup 0..MaxEvalSteps
  /\ latest_checkpoint = NoCheckpoint
  /\ checkpoints_since_eval = 0
  /\ eval_lock = NoHolder
  /\ checkpoint_lock = NoHolder
  /\ dir_latest = NoCheckpoint
  /\ call = [t \in Threads |-> "none"]
  /\ pc = [t \in Threads |-> "idle"]
  /\ got_lock = [t \in Threads |-> FALSE]
  /\ latest = [t \in Threads |-> NoCheckpoint]
  /\ loaded = [t \in Threads |-> 0]
  /\ eval_step = [t \in Threads |-> 0]
  /\ exhausted = [t \in Threads |-> FALSE]
  /\ exc = [t \in Threads |-> "none"]
  /\ passes = [t \in Threads |-> 0]
  /\ end_found = "none"
  /\ global_step = 0
  /\ restored = [t \in Threads |-> NoCheckpoint]
  /\ train_step = [t \in Threads |-> 0]
  /\ written = [t \in Threads |-> NoSummary]
  /\ changes_recorded = 0

\* the hook's configuration never changes after construction
hookConfig == <<eval_every, eval_steps>>
\* the locals of _update_latest_checkpoint
updLocals == <<got_lock, latest, loaded>>
\* the locals of _run_eval
evalLocals == <<eval_step, exhausted, exc, passes, restored, train_step,
               written>>
endSeen == <<end_found>>

\* end() has been called: the training loop is over, no further after_run starts
EndCalled == \E t \in Threads : call[t] = "end"

(***************************************************************************)
(* The training session writes a new checkpoint (save_checkpoint_secs,     *)
(* line 187) of the global step it has reached: from now on that is what   *)
(* tf.train.latest_checkpoint() returns.  The session's own saver runs     *)
(* before the hooks passed at line 186, at every step and at the close, so *)
(* the directory no longer changes once end() has been called.             *)
(***************************************************************************)
SaveCheckpoint ==
  /\ ~EndCalled
  /\ dir_latest < global_step
  /\ dir_latest' = global_step
  /\ UNCHANGED <<dispatchVars, hookConfig, global_step, latest_checkpoint,
                 checkpoints_since_eval, eval_lock, checkpoint_lock, call, pc,
                 updLocals, evalLocals, endSeen, changes_recorded>>

(***************************************************************************)
(* The training loop runs a step (line 198): the live global step grows.   *)
(* The hook never reads it, so the model lets training run one step ahead  *)
(* of the latest checkpoint, up to global step MaxCkpt.  end() is called   *)
(* when the loop is over.                                                  *)
(***************************************************************************)
TrainAdvance ==
  /\ ~EndCalled
  /\ global_step = dir_latest
  /\ global_step < MaxCkpt
  /\ global_step' = global_step + 1
  /\ UNCHANGED <<dispatchVars, hookConfig, latest_checkpoint,
                 checkpoints_since_eval, eval_lock, checkpoint_lock,
                 dir_latest, call, pc, updLocals, evalLocals, endSeen,
                 changes_recorded>>

\* a callback runs on the first free thread (free threads do not differ)
FreeThread(t) == pc[t] = "idle" /\ \A u \in Threads : u < t => pc[u] # "idle"

(***************************************************************************)
(* after_run is invoked on thread t (line 49); its first statement is the  *)
(* call of _update_latest_checkpoint (line 52).                            *)
(***************************************************************************)
AfterRunCall(t) ==
  /\ FreeThread(t)
  /\ ~EndCalled
  /\ call' = [call EXCEPT ![t] = "after_run"]
  /\ pc' = [pc EXCEPT ![t] = "upd_acquire"]
  /\ UNCHANGED <<dispatchVars, hookConfig, global_step, latest_checkpoint,
                 checkpoints_since_eval, eval_lock, checkpoint_lock,
                 dir_latest, updLocals, evalLocals, endSeen, changes_recorded>>

(***************************************************************************)
(* end is invoked on thread t (line 73), once; its first statement is the  *)
(* call of _update_latest_checkpoint (line 75).                            *)
(***************************************************************************)
EndCall(t) ==
  /\ FreeThread(t)
  /\ ~EndCalled
  /\ call' = [call EXCEPT ![t] = "end"]
  /\ pc' = [pc EXCEPT ![t] = "upd_acquire"]
  /\ end_found' = IF checkpoints_since_eval = 0
                    THEN IF eval_lock # NoHolder THEN "idle_busy" ELSE "idle"
                    ELSE IF eval_lock # NoHolder THEN "busy" ELSE "other"
  /\ UNCHANGED <<dispatchVars, hookConfig, global_step, latest_checkpoint,
                 checkpoints_since_eval, eval_lock, checkpoint_lock,
                 dir_latest, updLocals, evalLocals, changes_recorded>>

\* where a thread continues when _update_latest_checkpoint returns (lines 54, 77)
AfterUpdate(c) == IF c = "end" THEN "end_acquire" ELSE "ar_acquire"

\* mutant: a blocking acquire() of the checkpoint lock
UpdateAcquireBlocking(t) ==
  /\ pc[t] = "upd_acquire"
  /\ checkpoint_lock = NoHolder
  /\ checkpoint_lock' = t
  /\ got_lock' = [got_lock EXCEPT ![t] = TRUE]
  /\ pc' = [pc EXCEPT ![t] = "upd_latest"]
  /\ UNCHANGED <<dispatchVars, hookConfig, global_step, latest_checkpoint,
                 checkpoints_since_eval, eval_lock, dir_latest, call, latest,
                 loaded, evalLocals, endSeen, changes_recorded>>

\* an update that goes on only when the evaluation lock is free as well
UpdateAcquireUnderEvalLock(t) ==
  /\ pc[t] = "upd_acquire"
  /\ IF checkpoint_lock = NoHolder /\ eval_lock = NoHolder
       THEN /\ checkpoint_lock' = t
            /\ got_lock' = [got_lock EXCEPT ![t] = TRUE]
            /\ pc' = [pc EXCEPT ![t] = "upd_latest"]
       ELSE /\ checkpoint_lock' = checkpoint_lock
            /\ got_lock' = [got_lock EXCEPT ![t] = FALSE]
            /\ pc' = [pc EXCEPT ![t] = AfterUpdate(call[t])]
  /\ UNCHANGED <<dispatchVars, hookConfig, global_step, latest_checkpoint,
                 checkpoints_since_eval, eval_lock, dir_latest, call, latest,
                 loaded, evalLocals, endSeen, changes_recorded>>

(***************************************************************************)
(* _update_latest_checkpoint, line 64: self._checkpoint_lock.acquire(False) *)
(* takes the lock when it is free; otherwise it returns False at once and  *)
(* the method returns without doing anything.                              *)
(***************************************************************************)
UpdateAcquire(t) ==
  /\ pc[t] = "upd_acquire"
  /\ IF checkpoint_lock = NoHolder
       THEN /\ checkpoint_lock' = t
            /\ got_lock' = [got_lock EXCEPT ![t] = TRUE]
            /\ pc' = [pc EXCEPT ![t] = "upd_latest"]
       ELSE /\ checkpoint_lock' = checkpoint_lock
            /\ got_lock' = [got_lock EXCEPT ![t] = FALSE]
            /\ pc' = [pc EXCEPT ![t] = AfterUpdate(call[t])]
  /\ UNCHANGED <<dispatchVars, hookConfig, global_step, latest_checkpoint,
                 checkpoints_since_eval, eval_lock, dir_latest, call, latest,
                 loaded, evalLocals, endSeen, changes_recorded>>

(***************************************************************************)
(* lines 66-67: latest = tf.train.latest_checkpoint(dir), compared with    *)
(* self._latest_checkpoint (which only the lock's holder writes).          *)
(***************************************************************************)
UpdateLatest(t) ==
  /\ pc[t] = "upd_latest"
  /\ latest' = [latest EXCEPT ![t] = dir_latest]
  /\ pc' = [pc EXCEPT ![t] = IF dir_latest = latest_checkpoint
                               THEN "upd_release" ELSE "upd_load"]
  /\ UNCHANGED <<dispatchVars, hookConfig, global_step, latest_checkpoint,
                 checkpoints_since_eval, eval_lock, checkpoint_lock,
                 dir_latest, call, got_lock, loaded, evalLocals, endSeen,
                 changes_recorded>>

(***************************************************************************)
(* line 68, self._checkpoints_since_eval += 1, is a read, an add and a     *)
(* write: the thread may be preempted between the read and the write.      *)
(***************************************************************************)
UpdateLoad(t) ==
  /\ pc[t] = "upd_load"
  /\ loaded' = [loaded EXCEPT ![t] = checkpoints_since_eval]
  /\ pc' = [pc EXCEPT ![t] = "upd_store"]
  /\ UNCHANGED <<dispatchVars, hookConfig, global_step, latest_checkpoint,
                 checkpoints_since_eval, eval_lock, checkpoint_lock,
                 dir_latest, call, got_lock, latest, evalLocals, endSeen,
                 changes_recorded>>

\* the value `+= 1` writes back, from the value it read
Incremented(n) == n + 1

UpdateStore(t) ==
  /\ pc[t] = "upd_store"
  /\ checkpoints_since_eval' = Incremented(loaded[t])
  /\ pc' = [pc EXCEPT ![t] = "upd_set"]
  /\ changes_recorded' = changes_recorded + 1
  /\ UNCHANGED <<dispatchVars, hookConfig, global_step, latest_checkpoint,
                 eval_lock, checkpoint_lock, dir_latest, call, updLocals,
                 evalLocals, endSeen>>

\* line 69: self._latest_checkpoint = latest
UpdateSet(t) ==
  /\ pc[t] = "upd_set"
  /\ latest_checkpoint' = latest[t]
  /\ pc' = [pc EXCEPT ![t] = "upd_release"]
  /\ UNCHANGED <<dispatchVars, hookConfig, global_step,
                 checkpoints_since_eval, eval_lock, checkpoint_lock,
                 dir_latest, call, updLocals, evalLocals, endSeen,
                 changes_recorded>>

\* an update that returns to its caller still holding the checkpoint lock
UpdateReturnHoldingLock(t) ==
  /\ pc[t] = "upd_release"
  /\ checkpoint_lock' = checkpoint_lock
  /\ latest' = [latest EXCEPT ![t] = NoCheckpoint]
  /\ loaded' = [loaded EXCEPT ![t] = 0]
  /\ pc' = [pc EXCEPT ![t] = AfterUpdate(call[t])]
  /\ UNCHANGED <<dispatchVars, hookConfig, global_step, latest_checkpoint,
                 checkpoints_since_eval, eval_lock, dir_latest, call,
                 got_lock, evalLocals, endSeen, changes_recorded>>

\* lines 70-71: finally: self._checkpoint_lock.release(), and return
UpdateRelease(t) ==
  /\ pc[t] = "upd_release"
  /\ checkpoint_lock' = NoHolder
  /\ latest' = [latest EXCEPT ![t] = NoCheckpoint]
  /\ loaded' = [loaded EXCEPT ![t] = 0]
  /\ pc' = [pc EXCEPT ![t] = AfterUpdate(call[t])]
  /\ UNCHANGED <<dispatchVars, hookConfig, global_step, latest_checkpoint,
                 checkpoints_since_eval, eval_lock, dir_latest, call,
                 got_lock, evalLocals, endSeen, changes_recorded>>

(***************************************************************************)
(* after_run, line 54: if self._eval_lock.acquire(False).  A thread that   *)
(* does not get the lock leaves the if and after_run returns.              *)
(***************************************************************************)
\* mutant: the result of acquire(False) is not looked at
TryAcquireUnchecked(lock) == TRUE

\* what acquire(False) returns: whether the lock was free
TryAcquire(lock) == lock = NoHolder

\* an after_run that waits for the evaluation lock, as end() does
AfterRunAcquireBlocking(t) ==
  /\ pc[t] = "ar_acquire"
  /\ eval_lock = NoHolder
  /\ eval_lock' = t
  /\ pc' = [pc EXCEPT ![t] = "ar_check"]
  /\ got_lock' = [got_lock EXCEPT ![t] = FALSE]
  /\ UNCHANGED <<dispatchVars, hookConfig, global_step, latest_checkpoint,
                 checkpoints_since_eval, checkpoint_lock, dir_latest, call,
                 latest, loaded, evalLocals, endSeen, changes_recorded>>

AfterRunAcquire(t) ==
  /\ pc[t] = "ar_acquire"
  /\ IF TryAcquire(eval_lock)
       THEN /\ eval_lock' = t
            /\ pc' = [pc EXCEPT ![t] = "ar_check"]
            /\ call' = call
       ELSE /\ eval_lock' = eval_lock
            /\ pc' = [pc EXCEPT ![t] = "idle"]
            /\ call' = [call EXCEPT ![t] = "none"]
  /\ got_lock' = [got_lock EXCEPT ![t] = FALSE]
  /\ UNCHANGED <<dispatchVars, hookConfig, global_step, latest_checkpoint,
                 checkpoints_since_eval, checkpoint_lock, dir_latest, latest,
                 loaded, evalLocals, endSeen, changes_recorded>>

\* mutant: >= where the code has >
ShouldEvaluateAtLeast(count, every) == count >= every

\* line 56: self._checkpoints_since_eval > self._eval_every
ShouldEvaluate(count, every) == count > every

AfterRunCheck(t) ==
  /\ pc[t] = "ar_check"
  /\ pc' = [pc EXCEPT ![t] = IF ShouldEvaluate(checkpoints_since_eval, eval_every)
                               THEN "ar_reset" ELSE "ar_release"]
  /\ UNCHANGED <<dispatchVars, hookConfig, global_step, latest_checkpoint,
                 checkpoints_since_eval, eval_lock, checkpoint_lock,
                 dir_latest, call, updLocals, evalLocals, endSeen,
                 changes_recorded>>

\* line 57: self._checkpoints_since_eval = 0, then the call of _run_eval (58)
AfterRunReset(t) ==
  /\ pc[t] = "ar_reset"
  /\ checkpoints_since_eval' = 0
  /\ pc' = [pc EXCEPT ![t] = "ev_restore"]
  /\ changes_recorded' = 0
  /\ UNCHANGED <<dispatchVars, hookConfig, global_step, latest_checkpoint,
                 eval_lock, checkpoint_lock, dir_latest, call, updLocals,
                 evalLocals, endSeen>>

\* mutant: release() after the try block instead of in its finally clause
AfterRunReleaseOnSuccess(t) ==
  /\ pc[t] = "ar_release"
  /\ IF exc[t] = "none"
       THEN /\ eval_lock' = NoHolder
            /\ pc' = [pc EXCEPT ![t] = "idle"]
            /\ call' = [call EXCEPT ![t] = "none"]
       ELSE /\ eval_lock' = eval_lock
            /\ pc' = [pc EXCEPT ![t] = "raised"]
            /\ call' = call
  /\ eval_step' = [eval_step EXCEPT ![t] = 0]
  /\ exhausted' = [exhausted EXCEPT ![t] = FALSE]
  /\ passes' = [passes EXCEPT ![t] = 0]
  /\ exc' = [exc EXCEPT ![t] = "none"]
  /\ restored' = [restored EXCEPT ![t] = NoCheckpoint]
  /\ train_step' = [train_step EXCEPT ![t] = 0]
  /\ written' = [written EXCEPT ![t] = NoSummary]
  /\ UNCHANGED <<dispatchVars, hookConfig, global_step, latest_checkpoint,
                 checkpoints_since_eval, checkpoint_lock, dir_latest,
                 updLocals, endSeen, changes_recorded>>

(***************************************************************************)
(* lines 59-60: finally: self._eval_lock.release().  after_run then        *)
(* returns, or the exception of _run_eval leaves it and ends the thread.   *)
(***************************************************************************)
AfterRunRelease(t) ==
  /\ pc[t] = "ar_release"
  /\ eval_lock' = NoHolder
  /\ IF exc[t] = "none"
       THEN /\ pc' = [pc EXCEPT ![t] = "idle"]
            /\ call' = [call EXCEPT ![t] = "none"]
       ELSE /\ pc' = [pc EXCEPT ![t] = "raised"]
            /\ call' = call
  /\ eval_step' = [eval_step EXCEPT ![t] = 0]
  /\ exhausted' = [exhausted EXCEPT ![t] = FALSE]
  /\ passes' = [passes EXCEPT ![t] = 0]
  /\ exc' = [exc EXCEPT ![t] = "none"]
  /\ restored' = [restored EXCEPT ![t] = NoCheckpoint]
  /\ train_step' = [train_step EXCEPT ![t] = 0]
  /\ written' = [written EXCEPT ![t] = NoSummary]
  /\ UNCHANGED <<dispatchVars, hookConfig, global_step, latest_checkpoint,
                 checkpoints_since_eval, checkpoint_lock, dir_latest,
                 updLocals, endSeen, changes_recorded>>

\* mutant: end() tries the lock as after_run does, and returns when it is held
EndAcquireNonBlocking(t) ==
  /\ pc[t] = "end_acquire"
  /\ IF eval_lock = NoHolder
       THEN /\ eval_lock' = t
            /\ pc' = [pc EXCEPT ![t] = "ev_restore"]
       ELSE /\ eval_lock' = eval_lock
            /\ pc' = [pc EXCEPT ![t] = "returned"]
  /\ got_lock' = [got_lock EXCEPT ![t] = FALSE]
  /\ UNCHANGED <<dispatchVars, hookConfig, global_step, latest_checkpoint,
                 checkpoints_since_eval, checkpoint_lock, dir_latest, call,
                 latest, loaded, evalLocals, endSeen, changes_recorded>>

(***************************************************************************)
(* end, line 77: with self._eval_lock: a blocking acquire, the thread      *)
(* waits until the lock is free; then the call of _run_eval (78).          *)
(***************************************************************************)
EndAcquire(t) ==
  /\ pc[t] = "end_acquire"
  /\ eval_lock = NoHolder
  /\ eval_lock' = t
  /\ pc' = [pc EXCEPT ![t] = "ev_restore"]
  /\ got_lock' = [got_lock EXCEPT ![t] = FALSE]
  /\ UNCHANGED <<dispatchVars, hookConfig, global_step, latest_checkpoint,
                 checkpoints_since_eval, checkpoint_lock, dir_latest, call,
                 latest, loaded, evalLocals, endSeen, changes_recorded>>

\* the with statement's exit releases the lock, on return and on exception
EndRelease(t) ==
  /\ pc[t] = "end_release"
  /\ eval_lock' = NoHolder
  /\ pc' = [pc EXCEPT ![t] = IF exc[t] = "none" THEN "returned" ELSE "raised"]
  /\ eval_step' = [eval_step EXCEPT ![t] = 0]
  /\ exhausted' = [exhausted EXCEPT ![t] = FALSE]
  /\ exc' = [exc EXCEPT ![t] = "none"]
  /\ restored' = [restored EXCEPT ![t] = NoCheckpoint]
  /\ train_step' = [train_step EXCEPT ![t] = 0]
  /\ written' = [written EXCEPT ![t] = NoSummary]
  /\ UNCHANGED <<dispatchVars, hookConfig, global_step, latest_checkpoint,
                 checkpoints_since_eval, checkpoint_lock, dir_latest, call,
                 updLocals, passes, endSeen, changes_recorded>>

\* where _run_eval's caller continues, on return and on exception (lines 59, 77)
AfterEval(c) == IF c = "end" THEN "end_release" ELSE "ar_release"

\* the global step saved in checkpoint c: the session names a checkpoint by
\* the global step it saves (SaveCheckpoint)
StepOf(c) == c

\* a pass that reads the global step of the training session, not its own
RunEvalRestoreLiveStep(t) ==
  /\ pc[t] = "ev_restore"
  /\ IF latest_checkpoint = NoCheckpoint
       THEN /\ exc' = [exc EXCEPT ![t] = "ValueError"]
            /\ pc' = [pc EXCEPT ![t] = AfterEval(call[t])]
            /\ UNCHANGED <<restored, train_step>>
       ELSE \/ /\ exc' = [exc EXCEPT ![t] = "RestoreError"]
               /\ pc' = [pc EXCEPT ![t] = AfterEval(call[t])]
               /\ UNCHANGED <<restored, train_step>>
            \/ /\ exc' = exc
               /\ pc' = [pc EXCEPT ![t] = "ev_loop"]
               /\ restored' = [restored EXCEPT ![t] = latest_checkpoint]
               /\ train_step' = [train_step EXCEPT ![t] = global_step]
  /\ UNCHANGED <<dispatchVars, hookConfig, global_step, latest_checkpoint,
                 checkpoints_since_eval, eval_lock, checkpoint_lock,
                 dir_latest, call, updLocals, eval_step, exhausted, passes,
                 written, endSeen, changes_recorded>>

(***************************************************************************)
(* _run_eval, lines 85-94: a session of its own on the evaluation graph,   *)
(* self._saver.restore(session, self._latest_checkpoint), and train_step = *)
(* session.run(self._gs), the global step that session has just restored.  *)
(* restore raises ValueError for None, and may fail on a checkpoint it     *)
(* cannot read.                                                            *)
(***************************************************************************)
RunEvalRestore(t) ==
  /\ pc[t] = "ev_restore"
  /\ IF latest_checkpoint = NoCheckpoint
       THEN /\ exc' = [exc EXCEPT ![t] = "ValueError"]
            /\ pc' = [pc EXCEPT ![t] = AfterEval(call[t])]
            /\ UNCHANGED <<restored, train_step>>
       ELSE \/ /\ exc' = [exc EXCEPT ![t] = "RestoreError"]
               /\ pc' = [pc EXCEPT ![t] = AfterEval(call[t])]
               /\ UNCHANGED <<restored, train_step>>
            \/ /\ exc' = exc
               /\ pc' = [pc EXCEPT ![t] = "ev_loop"]
               /\ restored' = [restored EXCEPT ![t] = latest_checkpoint]
               /\ train_step' = [train_step EXCEPT ![t] =
                                   StepOf(latest_checkpoint)]
  /\ UNCHANGED <<dispatchVars, hookConfig, global_step, latest_checkpoint,
                 checkpoints_since_eval, eval_lock, checkpoint_lock,
                 dir_latest, call, updLocals, eval_step, exhausted, passes,
                 written, endSeen, changes_recorded>>

\* lines 99-100: not coord.should_stop() and
\* (self._eval_steps is None or eval_step < self._eval_steps)
LoopCondition(n, limit) == limit = NoLimit \/ n < limit

(***************************************************************************)
(* lines 101-105: one iteration: summaries = session.run(...), eval_step   *)
(* += 1.  Without a limit and on a pipeline that never ends the loop never *)
(* ends; the model counts its iterations up to MaxEvalSteps + 1.           *)
(***************************************************************************)
RunEvalIterate(t) ==
  /\ pc[t] = "ev_loop"
  /\ LoopCondition(eval_step[t], eval_steps)
  /\ eval_step[t] <= MaxEvalSteps
  /\ eval_step' = [eval_step EXCEPT ![t] = eval_step[t] + 1]
  /\ UNCHANGED <<dispatchVars, hookConfig, global_step, latest_checkpoint,
                 checkpoints_since_eval, eval_lock, checkpoint_lock,
                 dir_latest, call, pc, updLocals, exhausted, exc, passes,
                 restored, train_step, written, endSeen, changes_recorded>>

(***************************************************************************)
(* line 101 raises OutOfRangeError (or CancelledError): the input pipeline *)
(* is exhausted, after any number of iterations.  stop_on_exception (line  *)
(* 97) hands the exception to the coordinator, for which it is a clean     *)
(* stop (lines 82-83), and control continues after the with, at line 108.  *)
(***************************************************************************)
RunEvalExhausted(t) ==
  /\ pc[t] = "ev_loop"
  /\ LoopCondition(eval_step[t], eval_steps)
  /\ exhausted' = [exhausted EXCEPT ![t] = TRUE]
  /\ pc' = [pc EXCEPT ![t] = "ev_write"]
  /\ UNCHANGED <<dispatchVars, hookConfig, global_step, latest_checkpoint,
                 checkpoints_since_eval, eval_lock, checkpoint_lock,
                 dir_latest, call, updLocals, eval_step, exc, passes,
                 restored, train_step, written, endSeen, changes_recorded>>

\* the loop condition is false: eval_steps iterations are done
RunEvalLoopExit(t) ==
  /\ pc[t] = "ev_loop"
  /\ ~LoopCondition(eval_step[t], eval_steps)
  /\ pc' = [pc EXCEPT ![t] = "ev_write"]
  /\ UNCHANGED <<dispatchVars, hookConfig, global_step, latest_checkpoint,
                 checkpoints_since_eval, eval_lock, checkpoint_lock,
                 dir_latest, call, updLocals, evalLocals, endSeen,
                 changes_recorded>>

\* `summaries` is bound once an iteration has assigned it (line 101)
SummariesBound(n) == n > 0

(***************************************************************************)
(* lines 108-109: add_summary(summaries, global_step=train_step).  The     *)
(* local `summaries` is bound by the first iteration of the loop: after a  *)
(* loop of no iteration the read raises UnboundLocalError.                 *)
(***************************************************************************)
RunEvalWrite(t) ==
  /\ pc[t] = "ev_write"
  /\ IF SummariesBound(eval_step[t])
       THEN /\ passes' = [passes EXCEPT ![t] = passes[t] + 1]
            /\ written' = [written EXCEPT ![t] = train_step[t]]
            /\ exc' = exc
       ELSE /\ exc' = [exc EXCEPT ![t] = "UnboundLocalError"]
            /\ passes' = passes
            /\ written' = written
  /\ pc' = [pc EXCEPT ![t] = AfterEval(call[t])]
  /\ UNCHANGED <<dispatchVars, hookConfig, global_step, latest_checkpoint,
                 checkpoints_since_eval, eval_lock, checkpoint_lock,
                 dir_latest, call, updLocals, eval_step, exhausted, restored,
                 train_step, endSeen, changes_recorded>>

HookNext ==
  \/ SaveCheckpoint
  \/ TrainAdvance
  \/ \E t \in Threads :
       \/ AfterRunCall(t)
       \/ EndCall(t)
       \/ UpdateAcquire(t)
       \/ UpdateLatest(t)
       \/ UpdateLoad(t)
       \/ UpdateStore(t)
       \/ UpdateSet(t)
       \/ UpdateRelease(t)
       \/ AfterRunAcquire(t)
       \/ AfterRunCheck(t)
       \/ AfterRunReset(t)
       \/ AfterRunRelease(t)
       \/ EndAcquire(t)
       \/ EndRelease(t)
       \/ RunEvalRestore(t)
       \/ RunEvalIterate(t)
       \/ RunEvalExhausted(t)
       \/ RunEvalLoopExit(t)
       \/ RunEvalWrite(t)

(***************************************************************************)
(* dispatch() and run().                                                   *)
(***************************************************************************)
\* role names a TF_CONFIG may carry; "evaluator" stands for any other name
JobNames == {"ps", "master", "worker", "evaluator"}
\* task.get('type') / task.get('index') when the key is missing
NoJob == "None"
NoIndex == -1
\* --train-steps not given
NoTrainLimit == -1

(***************************************************************************)
(* The values of os.environ.get('TF_CONFIG') (line 210): unset, or a JSON  *)
(* object whose 'cluster' (a mapping from job names to TasksPerJob         *)
(* addresses each) and whose task 'type' and 'index' may each be missing.  *)
(***************************************************************************)
TfConfigs ==
  [set : {FALSE}, has_cluster : {FALSE}, jobs : {{}}, type : {NoJob}, index : {NoIndex}]
  \cup
  [set : {TRUE}, has_cluster : {TRUE}, jobs : SUBSET JobNames,
   type : JobNames \cup {NoJob}, index : {NoIndex} \cup 0..MaxIndex]
  \cup
  [set : {TRUE}, has_cluster : {FALSE}, jobs : {{}},
   type : JobNames \cup {NoJob}, index : {NoIndex} \cup 0..MaxIndex]

DispatchInit ==
  /\ tf_config \in TfConfigs
  /\ dpc = "start"
  /\ server_started = FALSE
  /\ run_args = <<>>
  /\ hooks_attached = FALSE
  /\ train_steps \in {NoTrainLimit} \cup 0..MaxTrainSteps
  /\ step = 0
  /\ steps_run = 0
  /\ start_step = 0
  /\ hook_calls = 0
  /\ stop_requested = FALSE

\* lines 213-214: if not tf_config: return run('', True, ...)
DispatchLocal ==
  /\ dpc = "start"
  /\ ~tf_config.set
  /\ run_args' = <<"", TRUE>>
  /\ dpc' = "run"
  /\ UNCHANGED <<hookVars, tf_config, server_started, hooks_attached,
                 train_steps, step, steps_run, start_step, hook_calls,
                 stop_requested>>

\* a test of line 223 that runs locally only when both keys are missing
TaskMissingBoth(cfg) == cfg.type = NoJob /\ cfg.index = NoIndex

\* line 223: job_name is None or task_index is None
TaskMissing(cfg) == cfg.type = NoJob \/ cfg.index = NoIndex

\* lines 216-224: the JSON is parsed; without a task type or index, run locally
DispatchParse ==
  /\ dpc = "start"
  /\ tf_config.set
  /\ IF TaskMissing(tf_config)
       THEN /\ run_args' = <<"", TRUE>>
            /\ dpc' = "run"
       ELSE /\ run_args' = run_args
            /\ dpc' = "cluster_spec"
  /\ UNCHANGED <<hookVars, tf_config, server_started, hooks_attached,
                 train_steps, step, steps_run, start_step, hook_calls,
                 stop_requested>>

(***************************************************************************)
(* line 226: tf.train.ClusterSpec(cluster) raises TypeError when cluster   *)
(* is None (no 'cluster' key in TF_CONFIG).                                *)
(***************************************************************************)
DispatchClusterSpec ==
  /\ dpc = "cluster_spec"
  /\ dpc' = IF tf_config.has_cluster THEN "server" ELSE "error"
  /\ UNCHANGED <<hookVars, tf_config, server_started, run_args,
                 hooks_attached, train_steps, step, steps_run, start_step,
                 hook_calls,
                 stop_requested>>

\* tf.train.Server starts for a task the cluster lists, and raises otherwise
ServerStarts(cfg) == cfg.type \in cfg.jobs /\ cfg.index < TasksPerJob

\* lines 227-229: server = tf.train.Server(cluster_spec, job_name, task_index)
DispatchServer ==
  /\ dpc = "server"
  /\ IF ServerStarts(tf_config)
       THEN /\ server_started' = TRUE
            /\ dpc' = "role"
       ELSE /\ server_started' = server_started
            /\ dpc' = "error"
  /\ UNCHANGED <<hookVars, tf_config, run_args, hooks_attached, train_steps,
                 step, steps_run, start_step, hook_calls, stop_requested>>

\* server.target: the address of the server just started
ServerTarget == "grpc"

\* a dispatch whose 'ps' test is missing, so that 'ps' takes the run branch
DispatchRoleNoJoin ==
  /\ dpc = "role"
  /\ IF tf_config.type \in {"ps", "master", "worker"}
       THEN /\ dpc' = "run"
            /\ run_args' = <<ServerTarget, tf_config.type = "master">>
       ELSE /\ dpc' = "returned"
            /\ run_args' = run_args
  /\ UNCHANGED <<hookVars, tf_config, server_started, hooks_attached,
                 train_steps, step, steps_run, start_step, hook_calls,
                 stop_requested>>

(***************************************************************************)
(* lines 237-241: 'ps' joins the server and never gets past it; 'master'   *)
(* and 'worker' call run(server.target, job_name == 'master'); for any     *)
(* other name neither branch is taken and dispatch returns None.           *)
(***************************************************************************)
DispatchRole ==
  /\ dpc = "role"
  /\ IF tf_config.type = "ps"
       THEN /\ dpc' = "join"
            /\ run_args' = run_args
       ELSE IF tf_config.type \in {"master", "worker"}
              THEN /\ dpc' = "run"
                   /\ run_args' = <<ServerTarget, tf_config.type = "master">>
              ELSE /\ dpc' = "returned"
                   /\ run_args' = run_args
  /\ UNCHANGED <<hookVars, tf_config, server_started, hooks_attached,
                 train_steps, step, steps_run, start_step, hook_calls,
                 stop_requested>>

\* a run() that builds and attaches the hook whatever is_chief is
RunStartAlwaysHooks ==
  /\ dpc = "run"
  /\ hooks_attached' = TRUE
  /\ step' \in 0..MaxTrainSteps
  /\ start_step' = step'
  /\ dpc' = "train"
  /\ UNCHANGED <<hookVars, tf_config, server_started, run_args, train_steps,
                 steps_run, hook_calls, stop_requested>>

(***************************************************************************)
(* run(), lines 140-191: the EvaluationRunHook is built and attached when  *)
(* is_chief; the session restores the global step of the latest checkpoint *)
(* of job_dir, 0 on a fresh directory (line 191).                          *)
(***************************************************************************)
RunStart ==
  /\ dpc = "run"
  /\ hooks_attached' = run_args[2]
  /\ step' \in 0..MaxTrainSteps
  /\ start_step' = step'
  /\ dpc' = "train"
  /\ UNCHANGED <<hookVars, tf_config, server_started, run_args, train_steps,
                 steps_run, hook_calls, stop_requested>>

\* a loop test that still runs a step when step = train_steps
TrainConditionInclusive(n, limit, stop) ==
  (limit = NoTrainLimit \/ n <= limit) /\ ~stop

\* lines 196-197: (train_steps is None or step < train_steps)
\*                and not session.should_stop()
TrainCondition(n, limit, stop) == (limit = NoTrainLimit \/ n < limit) /\ ~stop

(***************************************************************************)
(* The global step is shared by the processes of a cluster: while this     *)
(* process runs one step against a server (target not ''), the other       *)
(* workers may add up to MaxOtherSteps to it.  A local run is alone.       *)
(***************************************************************************)
OtherSteps(target) == IF target = "" THEN {0} ELSE 0..MaxOtherSteps

\* the session calls after_run (and at the close end) of every attached hook
HookCalled(attached, n) == IF attached THEN n + 1 ELSE n

(***************************************************************************)
(* line 198: step, _ = session.run([global_step, train_op]).  Without a    *)
(* limit the loop runs until a stop is requested; the model counts its     *)
(* steps up to MaxTrainSteps + 1.                                          *)
(***************************************************************************)
TrainStep ==
  /\ dpc = "train"
  /\ TrainCondition(step, train_steps, stop_requested)
  /\ step <= MaxTrainSteps
  /\ \E d \in OtherSteps(run_args[1]) : step' = step + 1 + d
  /\ steps_run' = steps_run + 1
  /\ hook_calls' = HookCalled(hooks_attached, hook_calls)
  /\ UNCHANGED <<hookVars, tf_config, dpc, server_started, run_args,
                 hooks_attached, train_steps, start_step, stop_requested>>

\* a hook or the coordination layer asks the session to stop
RequestStop ==
  /\ dpc = "train"
  /\ ~stop_requested
  /\ stop_requested' = TRUE
  /\ UNCHANGED <<hookVars, tf_config, dpc, server_started, run_args,
                 hooks_attached, train_steps, step, steps_run, start_step,
                 hook_calls>>

\* the loop condition is false: the session closes (end of every attached
\* hook) and run() returns
RunExit ==
  /\ dpc = "train"
  /\ ~TrainCondition(step, train_steps, stop_requested)
  /\ dpc' = "done"
  /\ hook_calls' = HookCalled(hooks_attached, hook_calls)
  /\ UNCHANGED <<hookVars, tf_config, server_started, run_args,
                 hooks_attached, train_steps, step, steps_run, start_step,
                 stop_requested>>

DispatchNext ==
  \/ DispatchLocal
  \/ DispatchParse
  \/ DispatchClusterSpec
  \/ DispatchServer
  \/ DispatchRole
  \/ RunStart
  \/ TrainStep
  \/ RequestStop
  \/ RunExit

(***************************************************************************)
(* The specifications.  Spec runs the hook and leaves dispatch() at its    *)
(* start; SpecDispatch runs dispatch() and leaves the hook as constructed. *)
(***************************************************************************)
DispatchIdle ==
  /\ tf_config = [set |-> FALSE, has_cluster |-> FALSE, jobs |-> {},
                  type |-> NoJob, index |-> NoIndex]
  /\ dpc = "start"
  /\ server_started = FALSE
  /\ run_args = <<>>
  /\ hooks_attached = FALSE
  /\ train_steps = NoTrainLimit
  /\ step = 0
  /\ steps_run = 0
  /\ start_step = 0
  /\ hook_calls = 0
  /\ stop_requested = FALSE

HookIdle ==
  /\ HookInit
  /\ eval_every = 1
  /\ eval_steps = NoLimit

Init == HookInit /\ DispatchIdle
Next == HookNext
Spec == Init /\ [][Next]_vars

InitDispatch == HookIdle /\ DispatchInit
NextDispatch == DispatchNext
SpecDispatch == InitDispatch /\ [][NextDispatch]_vars

\* the next statement of the callback running on thread t
ThreadStep(t) ==
  \/ UpdateAcquire(t) \/ UpdateLatest(t) \/ UpdateLoad(t) \/ UpdateStore(t)
  \/ UpdateSet(t) \/ UpdateRelease(t)
  \/ AfterRunAcquire(t) \/ AfterRunCheck(t) \/ AfterRunReset(t)
  \/ AfterRunRelease(t)
  \/ EndAcquire(t) \/ EndRelease(t)
  \/ RunEvalRestore(t) \/ RunEvalIterate(t) \/ RunEvalExhausted(t)
  \/ RunEvalLoopExit(t) \/ RunEvalWrite(t)

\* every thread keeps being scheduled: a callback that can go on does go on
FairHook == \A t \in Threads : WF_vars(ThreadStep(t))

\* a hook that evaluates every new checkpoint, one step a pass: a pass ends
\* by its limit, or by exhaustion before it, which makes line 108 fail
InitFair == Init /\ eval_every = 0 /\ eval_steps = 1
SpecFair == InitFair /\ [][Next]_vars /\ FairHook

\* run() loops on the thread that called it, which keeps running: a step or
\* the exit of the loop that stays possible is eventually taken
FairTraining == WF_vars(TrainStep) /\ WF_vars(RunExit)
SpecDispatchFair == SpecDispatch /\ FairTraining

(***************************************************************************)
(* Properties of the hook, checked under Spec.                             *)
(***************************************************************************)
\* thread t is inside _run_eval
InRunEval(t) == pc[t] \in {"ev_restore", "ev_loop", "ev_write"}

\* C1: in every interleaving of overlapping after_run calls and the one end
\* call, at most one _run_eval invocation is in progress at any time.
C1_OneEvaluationAtATime ==
  \A t, u \in Threads : InRunEval(t) /\ InRunEval(u) => t = u

\* a periodic evaluation is running while end() waits for the lock
C1_Witness ==
  \E t, u \in Threads :
    /\ InRunEval(t) /\ call[t] = "after_run"
    /\ call[u] = "end" /\ pc[u] = "end_acquire"

\* C2: end() never skips: whatever checkpoints_since_eval was at the call and
\* whether or not the evaluation lock was held, end() leaves its acquire only
\* by taking the free lock and entering _run_eval, and when it has returned
\* exactly one evaluation pass of that call has completed.
C2_EndAlwaysEvaluates ==
  /\ [](\A t \in Threads : call[t] = "end" /\ pc[t] = "returned" => passes[t] = 1)
  /\ [][\A t \in Threads :
          pc[t] = "end_acquire" /\ pc'[t] # "end_acquire"
            => eval_lock = NoHolder /\ eval_lock' = t /\ pc'[t] = "ev_restore"]_vars

\* end() was called with nothing new to evaluate while a periodic evaluation
\* held the lock, and has returned after its one pass
C2_Witness ==
  \E t \in Threads :
    call[t] = "end" /\ pc[t] = "returned" /\ passes[t] = 1 /\ end_found = "idle_busy"

\* C3: every _update_latest_checkpoint call that observes a latest checkpoint
\* different from the recorded one increases checkpoints_since_eval by exactly
\* 1 and records the new identifier; a call that observes the same identifier
\* changes neither field.
C3_UpdateCountsEachChange ==
  [][\A t \in Threads :
       /\ pc[t] = "upd_store" /\ pc'[t] = "upd_set"
            => checkpoints_since_eval' = checkpoints_since_eval + 1
       /\ pc[t] = "upd_set" /\ pc'[t] = "upd_release"
            => latest_checkpoint' = latest[t] /\ latest_checkpoint' # latest_checkpoint
       /\ pc[t] = "upd_latest" /\ pc'[t] = "upd_release"
            => /\ latest_checkpoint' = latest_checkpoint
               /\ checkpoints_since_eval' = checkpoints_since_eval]_vars

\* C4: every write to latest_checkpoint and checkpoints_since_eval is made by
\* _update_latest_checkpoint while it holds the checkpoint lock; after_run and
\* end only read the two fields.
C4_OnlyUpdateWritesState ==
  [][latest_checkpoint' # latest_checkpoint
       \/ checkpoints_since_eval' # checkpoints_since_eval
     => \E t \in Threads :
          /\ checkpoint_lock = t
          /\ pc[t] \in {"upd_store", "upd_set"}
          /\ pc'[t] # pc[t]]_vars

\* C5: after_run starts a periodic evaluation only when, holding the
\* evaluation lock, it finds checkpoints_since_eval strictly greater than
\* eval_every; when the counter is equal or smaller it runs no evaluation
\* and does not reset the counter.
C5_StrictlyGreaterStartsEvaluation ==
  [][\A t \in Threads :
       /\ pc[t] = "ar_check" /\ pc'[t] # "ar_check"
            => IF checkpoints_since_eval > eval_every
                 THEN pc'[t] = "ar_reset"
                 ELSE /\ pc'[t] = "ar_release"
                      /\ checkpoints_since_eval' = checkpoints_since_eval
       /\ pc'[t] = "ar_reset" /\ pc[t] # "ar_reset"
            => pc[t] = "ar_check" /\ eval_lock = t
       /\ call[t] = "after_run" /\ InRunEval(t)' /\ ~InRunEval(t)
            => pc[t] = "ar_reset" /\ checkpoints_since_eval' = 0]_vars

\* with eval_every = 1 and one new checkpoint, after_run holds the lock and
\* leaves without a pass and without a reset
C5_Witness ==
  \E t \in Threads :
    /\ call[t] = "after_run" /\ pc[t] = "ar_release"
    /\ passes[t] = 0 /\ exc[t] = "none"
    /\ eval_every = 1 /\ checkpoints_since_eval = 1

\* positions at which a thread holds the evaluation lock
HoldsEvalLock(t) ==
  pc[t] \in {"ar_check", "ar_reset", "ev_restore", "ev_loop", "ev_write",
             "ar_release", "end_release"}

\* C6: when _run_eval fails inside after_run or end, the evaluation lock is
\* released before the failure leaves the hook: a thread whose call has
\* returned or raised never holds the lock, so a later end() can take it.
C6_LockReleasedOnFailure ==
  /\ \A t \in Threads : eval_lock = t => HoldsEvalLock(t)
  /\ (\A t \in Threads : ~HoldsEvalLock(t)) => eval_lock = NoHolder

\* an after_run call has failed, and the later end() has taken the lock and
\* finished
C6_Witness ==
  \E t, u \in Threads :
    /\ call[t] = "after_run" /\ pc[t] = "raised"
    /\ call[u] = "end" /\ pc[u] \in {"returned", "raised"}
    /\ eval_lock = NoHolder

\* C7: an _update_latest_checkpoint call made while another call holds the
\* checkpoint lock never waits: its acquire step is always enabled, returns
\* to the caller and changes neither field (nor the lock).
C7_BusyUpdateReturnsAtOnce ==
  /\ [](\A t \in Threads : pc[t] = "upd_acquire" => ENABLED UpdateAcquire(t))
  /\ [][\A t \in Threads :
          pc[t] = "upd_acquire" /\ checkpoint_lock # NoHolder /\ pc'[t] # pc[t]
            => /\ pc'[t] = IF call[t] = "end" THEN "end_acquire" ELSE "ar_acquire"
               /\ latest_checkpoint' = latest_checkpoint
               /\ checkpoints_since_eval' = checkpoints_since_eval
               /\ checkpoint_lock' = checkpoint_lock]_vars

\* thread t is back in its caller without the lock while u still holds it
C7_Witness ==
  \E t, u \in Threads :
    /\ t # u
    /\ pc[t] \in {"ar_acquire", "end_acquire"} /\ ~got_lock[t]
    /\ checkpoint_lock = u /\ pc[u] \in {"upd_latest", "upd_load", "upd_store"}

\* C8: a pass whose pipeline never signals exhaustion performs exactly
\* eval_steps iterations; a pass whose pipeline signals exhaustion after
\* k < eval_steps iterations, k = 0 included, ends as a clean stop, not as an
\* error.
C8_ExhaustionIsCleanStop ==
  eval_steps # NoLimit =>
    \A t \in Threads :
      /\ pc[t] = "ev_write" /\ ~exhausted[t] => eval_step[t] = eval_steps
      /\ exhausted[t] => eval_step[t] < eval_steps /\ exc[t] = "none"

(***************************************************************************)
(* Properties of dispatch(), checked under SpecDispatch.                   *)
(***************************************************************************)
\* a complete task entry whose role name is none of ps, master, worker
UnsupportedRole(cfg) ==
  cfg.set /\ ~TaskMissing(cfg) /\ cfg.type \notin {"ps", "master", "worker"}

\* C9: for a role name other than "ps", "master" and "worker", dispatch fails
\* with a configuration error before any server is started, and never
\* proceeds or returns silently.
C9_UnsupportedRoleFailsFast ==
  UnsupportedRole(tf_config)
    => ~server_started /\ dpc \in {"start", "cluster_spec", "server", "error"}

\* C10: whenever the cluster topology is absent, whatever the task entry
\* holds, dispatch starts no server, does not fail, and runs run('', True)
\* in-process.
C10_NoClusterRunsLocalChief ==
  ~tf_config.has_cluster
    => /\ ~server_started
       /\ dpc \notin {"error", "role", "join", "returned"}
       /\ dpc \in {"run", "train", "done"} => run_args = <<"", TRUE>>

\* TF_CONFIG is unset or empty, or its task entry lacks the type or the index
NoTaskEntry(cfg) == ~cfg.set \/ cfg.type = NoJob \/ cfg.index = NoIndex

\* C11: when TF_CONFIG is absent, or its task type or task index is missing,
\* dispatch starts no server and calls run('', True): it goes from its start
\* straight into run() with target '' and is_chief true.
C11_MissingTaskRunsLocalChief ==
  NoTaskEntry(tf_config)
    => /\ ~server_started
       /\ dpc \in {"start", "run", "train", "done"}
       /\ dpc # "start" => run_args = <<"", TRUE>>

\* a TF_CONFIG with a cluster and a task type but no task index is training
\* locally as chief
C11_Witness ==
  /\ tf_config.set /\ tf_config.has_cluster
  /\ tf_config.type = "worker" /\ tf_config.index = NoIndex
  /\ dpc = "train" /\ run_args = <<"", TRUE>> /\ ~server_started

\* a complete task entry with the given role name
HasRole(cfg, name) == cfg.set /\ cfg.type = name /\ cfg.index # NoIndex

\* C12: a process whose role is "ps" never calls run() and never executes a
\* training step; once its server has started it goes to server.join() and
\* stays there for ever.
C12_ParameterServerNeverTrains ==
  /\ [](HasRole(tf_config, "ps")
          => /\ dpc \notin {"run", "train", "done", "returned"}
             /\ run_args = <<>> /\ steps_run = 0 /\ ~hooks_attached
             /\ server_started => dpc \in {"role", "join"})
  /\ [][dpc = "join" => dpc' = "join"]_vars

\* a parameter server is serving
C12_Witness ==
  HasRole(tf_config, "ps") /\ server_started /\ dpc = "join"

\* C13: the EvaluationRunHook is attached exactly when is_chief is true;
\* "master" runs with is_chief true and the hook, "worker" at any index with
\* is_chief false and no hook, and a process without the hook never gets a
\* hook callback, so it never runs an evaluation pass.
C13_HookOnlyOnChief ==
  /\ dpc \in {"train", "done"} => hooks_attached = run_args[2]
  /\ dpc \notin {"train", "done"} => ~hooks_attached
  /\ HasRole(tf_config, "master") /\ dpc \in {"run", "train", "done"}
       => run_args = <<ServerTarget, TRUE>>
  /\ HasRole(tf_config, "worker") /\ dpc \in {"run", "train", "done"}
       => run_args = <<ServerTarget, FALSE>>
  /\ ~hooks_attached => hook_calls = 0

\* a worker of index 1 has trained and returned without a hook callback
C13_Witness ==
  /\ HasRole(tf_config, "worker") /\ tf_config.index = 1
  /\ dpc = "done" /\ steps_run > 0
  /\ ~hooks_attached /\ hook_calls = 0

\* steps a process on its own runs from global step s0 up to the limit
StepsToLimit(s0, limit) == IF limit > s0 THEN limit - s0 ELSE 0

\* C14 as stated: with train_steps = N and no stop signal, the loop has
\* executed exactly N training steps when it ends.
C14_ExactlyNSteps ==
  train_steps # NoTrainLimit /\ dpc = "done" /\ ~stop_requested
    => steps_run = train_steps

\* C14, amended: with train_steps = N the loop terminates, and without a stop
\* signal it ends when the global step it obtained has reached N: it never
\* runs more than N steps, and a local run that started from the restored
\* global step s0 runs exactly N - s0 steps (none when s0 >= N), which is N
\* only on a fresh directory.
C14_TrainsUntilGlobalStepIsN ==
  /\ [](train_steps # NoTrainLimit /\ dpc = "done" /\ ~stop_requested
          => /\ step >= train_steps
             /\ steps_run <= train_steps
             /\ run_args[1] = ""
                  => steps_run = StepsToLimit(start_step, train_steps))
  /\ (train_steps # NoTrainLimit /\ dpc = "train") ~> (dpc = "done")

\* a local run with train_steps = 2 that resumed from global step 1 has
\* ended after one step
C14_Witness ==
  /\ dpc = "done" /\ ~stop_requested /\ run_args[1] = ""
  /\ train_steps = 2 /\ start_step = 1 /\ steps_run = 1

(***************************************************************************)
(* Further properties of the hook, checked under Spec.                     *)
(***************************************************************************)
\* C15: every summary a pass writes is tagged with the global step saved in
\* the checkpoint that pass restored, whatever the live global step of the
\* training session has become in the meantime.
C15_SummaryTaggedWithRestoredStep ==
  \A t \in Threads :
    /\ pc[t] \in {"ev_loop", "ev_write"}
         => restored[t] # NoCheckpoint /\ train_step[t] = StepOf(restored[t])
    /\ written[t] # NoSummary
         => restored[t] # NoCheckpoint /\ written[t] = StepOf(restored[t])

\* a summary has been written for the restored checkpoint while a newer
\* checkpoint was recorded and the live global step had moved on
C15_Witness ==
  \E t \in Threads :
    /\ written[t] # NoSummary /\ written[t] = StepOf(restored[t])
    /\ latest_checkpoint > restored[t]
    /\ global_step > written[t]

\* thread t is inside _update_latest_checkpoint
InUpdate(t) ==
  pc[t] \in {"upd_acquire", "upd_latest", "upd_load", "upd_store", "upd_set",
             "upd_release"}

\* the next statement of _update_latest_checkpoint on thread t
UpdateStep(t) ==
  \/ UpdateAcquire(t) \/ UpdateLatest(t) \/ UpdateLoad(t)
  \/ UpdateStore(t) \/ UpdateSet(t) \/ UpdateRelease(t)

\* another thread is inside _run_eval
EvalInProgress(t) == \E u \in Threads : u # t /\ InRunEval(u)

\* C16: after_run calls _update_latest_checkpoint before it tries the
\* evaluation lock, and the update neither waits for nor touches that lock:
\* while another thread is inside _run_eval, an after_run call with the
\* checkpoint lock free takes it, sees the new checkpoint, raises
\* checkpoints_since_eval and records the checkpoint.
C16_UpdateFirstWithoutEvalLock ==
  /\ [](\A t \in Threads : InUpdate(t) => ENABLED UpdateStep(t))
  /\ [][\A t \in Threads :
          /\ call'[t] = "after_run" /\ call[t] # "after_run"
               => pc'[t] = "upd_acquire"
          /\ call[t] = "after_run" /\ pc'[t] = "ar_acquire" /\ pc[t] # "ar_acquire"
               => pc[t] \in {"upd_acquire", "upd_release"}
          /\ InUpdate(t) /\ pc'[t] # pc[t] => eval_lock' = eval_lock
          /\ call[t] = "after_run" /\ EvalInProgress(t) /\ pc'[t] # pc[t]
               => /\ pc[t] = "upd_acquire" /\ checkpoint_lock = NoHolder
                       => pc'[t] = "upd_latest" /\ checkpoint_lock' = t
                  /\ pc[t] = "upd_latest" /\ dir_latest # latest_checkpoint
                       => pc'[t] = "upd_load"
                  /\ pc[t] = "upd_store"
                       => checkpoints_since_eval' > checkpoints_since_eval
                  /\ pc[t] = "upd_set"
                       => /\ latest_checkpoint' = latest[t]
                          /\ latest_checkpoint' # latest_checkpoint]_vars

\* while u is evaluating the checkpoint it restored, an after_run call on t
\* has counted and recorded a newer one
C16_Witness ==
  \E t, u \in Threads :
    /\ t # u
    /\ InRunEval(u) /\ call[u] = "after_run" /\ restored[u] # NoCheckpoint
    /\ call[t] = "after_run" /\ pc[t] = "upd_release"
    /\ latest[t] = latest_checkpoint /\ latest_checkpoint > restored[u]
    /\ checkpoints_since_eval = 1

\* C17: an after_run call that finds the evaluation lock held never waits:
\* its acquire step is always possible, and with the lock held it returns
\* without entering _run_eval and without changing checkpoints_since_eval or
\* the lock, whatever the counter is.
C17_BusyAfterRunReturnsAtOnce ==
  /\ [](\A t \in Threads : pc[t] = "ar_acquire" => ENABLED AfterRunAcquire(t))
  /\ [][\A t \in Threads :
          pc[t] = "ar_acquire" /\ eval_lock # NoHolder /\ pc'[t] # pc[t]
            => /\ pc'[t] = "idle" /\ call'[t] = "none"
               /\ checkpoints_since_eval' = checkpoints_since_eval
               /\ eval_lock' = eval_lock
               /\ passes'[t] = 0 /\ written'[t] = NoSummary]_vars

\* u is still evaluating after its reset, the counter is above eval_every
\* again, and the thread that raised it has returned from after_run
C17_Witness ==
  \E t, u \in Threads :
    /\ t # u
    /\ call[u] = "after_run" /\ InRunEval(u) /\ eval_lock = u
    /\ pc[t] = "idle" /\ call[t] = "none"
    /\ checkpoints_since_eval > eval_every

\* C18: in every interleaving of the += 1 of _update_latest_checkpoint and
\* the reset of after_run, checkpoints_since_eval equals the number of
\* checkpoint changes recorded since the most recent reset to 0.
C18_NoLostCounterWrite ==
  checkpoints_since_eval = changes_recorded

\* C19: in every interleaving the evaluation end() starts restores a
\* checkpoint at least as new as the latest one the directory held when
\* end() was called (dir_latest, which does not change after that call); it
\* restores None only when the directory held none.
C19_FinalEvalRestoresLatest ==
  \A t \in Threads :
    call[t] = "end"
      => /\ restored[t] # NoCheckpoint => restored[t] >= dir_latest
         /\ exc[t] = "ValueError" => dir_latest = NoCheckpoint

====
